---------------------------- MODULE Spec2Model ----------------------------
(***************************************************************************)
(* Signup sequencer: the query surface (App::insert_identity,              *)
(* App::inclusion_proof), the startup recovery protocol                    *)
(* (App::new, App::load_initial_events) of src/src/app.rs, together with   *)
(* the collaborators they drive: the database (pending identities, event   *)
(* cache), the in-memory Merkle tree, the identity committer, the chain    *)
(* subscriber and the contract.  The collaborators' sources are not part   *)
(* of src/; they follow sections 4.A-4.E of the specification.             *)
(*                                                                         *)
(* Every await of a handler is a scheduling point: a handler is split into *)
(* one action per database access, tree read (under the read lock) or      *)
(* chain call, so that the subscriber and the committer interleave with it *)
(* exactly where the runtime lets them.                                    *)
(***************************************************************************)
EXTENDS Integers, Sequences, FiniteSets, Bags, TLC

(***************************************************************************)
(* Bounds of the model.                                                    *)
(***************************************************************************)
\* Number of distinct reduced, non-initial commitments clients may send.
MaxCommitment == 2
\* tree_depth() of the contract; the local tree is one level deeper.
ContractDepth == 1
\* Number of requests the server handles concurrently.
NumClients == 2
\* Number of pending rows the clients may create in one run.
MaxInsertions == 3
\* Number of shutdown / start cycles.
MaxRestarts == 1
\* Options::ethereum.cache_recovery_step_size.
CacheRecoveryStepSize == 1
\* Startups that the shutdown broadcast interrupts.
MaxInterrupts == 1
\* Commitments in the file given to parse_identity_commitments.
MaxFileCommitments == 2
\* Leaf-insertion events in the log parse_identity_commitments queries.
MaxParseEvents == 2
\* Highest block number of that log and of the file's last_block.
MaxParseBlock == 2

(***************************************************************************)
(* Program constants.                                                      *)
(***************************************************************************)
\* The group the contract was created with (createGroup(1, ...)).
GroupId == 1
\* initial_leaf_value of the contract (createGroup(..., 0)).
InitialLeafValue == 0
\* Options::starting_block, default_value = "0".
StartingBlock == 0
\* snark_scalar_field: the prime p, scaled down so that the commitments
\* 1 .. MaxCommitment are the reduced ones and p itself is unreduced.
SnarkScalarField == MaxCommitment + 1
\* "Poseidon tree depth is one more than the contract's tree depth"
TreeDepth == ContractDepth + 1

NumLeaves == 2 ^ TreeDepth
LeafIndices == 0 .. (NumLeaves - 1)

\* What a client may send.
Groups == {GroupId, GroupId + 1}
Commitments == 0 .. SnarkScalarField
\* Commitments insert_identity accepts.
ValidCommitments == {c \in Commitments : c # InitialLeafValue /\ c < SnarkScalarField}
\* A leaf value only a foreign write to the contract produces.
ForeignLeaf == SnarkScalarField + 1

Max(a, b) == IF a >= b THEN a ELSE b

(***************************************************************************)
(* Merkle tree (section 4.B).  The hash primitive is a collision-free      *)
(* pairing: the hash of two nodes is the pair itself.                      *)
(***************************************************************************)
Hash(l, r) == <<l, r>>

RECURSIVE Node(_, _, _)
\* The node at height h (0 = leaf level) and position pos of that level.
Node(leaves, h, pos) ==
    IF h = 0 THEN leaves[pos]
    ELSE Hash(Node(leaves, h - 1, 2 * pos), Node(leaves, h - 1, 2 * pos + 1))

Root(leaves) == Node(leaves, TreeDepth, 0)

\* proof(index): the siblings from the leaf level up, each tagged with the
\* side the path's own node is on.
Proof(leaves, index) ==
    [h \in 1 .. TreeDepth |->
        LET pos == index \div (2 ^ (h - 1))
        IN  IF pos % 2 = 0
            THEN <<"Left", Node(leaves, h - 1, pos + 1)>>
            ELSE <<"Right", Node(leaves, h - 1, pos - 1)>>]

RECURSIVE Fold(_, _)
\* Hash a value up along a proof.
Fold(value, proof) ==
    IF proof = <<>> THEN value
    ELSE Fold(IF Head(proof)[1] = "Left"
              THEN Hash(value, Head(proof)[2])
              ELSE Hash(Head(proof)[2], value),
              Tail(proof))

\* verify(value, proof) against the tree's root.
Verify(leaves, value, proof) == Fold(value, proof) = Root(leaves)

\* TreeState::new(depth, initial_leaf)
EmptyTree ==
    [leaves |-> [i \in LeafIndices |-> InitialLeafValue], next_leaf |-> 0]

\* set(index, value) with the cursor update of the tree state.
TreeSet(t, index, value) ==
    [leaves |-> [t.leaves EXCEPT ![index] = value],
     next_leaf |-> IF value # InitialLeafValue
                   THEN Max(t.next_leaf, index + 1)
                   ELSE t.next_leaf]

\* The reference tree of the tests: a fresh tree of the same depth and
\* initial leaf with set(i, leaf) done for the first n of the given leaves.
ReferenceLeaves(seq, n) ==
    [i \in LeafIndices |-> IF i < n THEN seq[i + 1] ELSE InitialLeafValue]

\* leaves().iter().position(|&x| x == commitment)
InTree(t, c) == \E i \in LeafIndices : t.leaves[i] = c
Position(t, c) == CHOOSE i \in LeafIndices :
                     /\ t.leaves[i] = c
                     /\ \A j \in LeafIndices : t.leaves[j] = c => i <= j

(***************************************************************************)
(* Event cache and pending identities (section 4.A).  The cache is a table *)
(* keyed by leaf_index; the pending table is kept in inserted_at order.    *)
(***************************************************************************)
Event(block, index, value, root) ==
    [block_number |-> block, leaf_index |-> index, leaf_value |-> value,
     root_after |-> root]

\* Order of events_since: by (block_number, leaf_index).
EventBefore(a, b) ==
    \/ a.block_number < b.block_number
    \/ a.block_number = b.block_number /\ a.leaf_index < b.leaf_index

RECURSIVE SortEvents(_)
SortEvents(events) ==
    IF events = {} THEN <<>>
    ELSE LET first == CHOOSE e \in events :
                          \A o \in events \ {e} : EventBefore(e, o)
         IN  <<first>> \o SortEvents(events \ {first})

\* append_event: idempotent on leaf_index.
append_event(events, e) ==
    IF \E o \in events : o.leaf_index = e.leaf_index THEN events
    ELSE events \cup {e}

\* last_cached_block: -1 if the cache is empty.
last_cached_block(events) ==
    IF events = {} THEN -1
    ELSE CHOOSE b \in {e.block_number : e \in events} :
             \A e \in events : e.block_number <= b

RECURSIVE delete_most_recent_cached_events(_, _)
\* Removes the n entries highest in the order of the cache.
delete_most_recent_cached_events(events, n) ==
    IF n = 0 \/ events = {} THEN events
    ELSE LET last == CHOOSE e \in events :
                         \A o \in events \ {e} : EventBefore(o, e)
         IN  delete_most_recent_cached_events(events \ {last}, n - 1)

\* wipe_cache: removes all cached events.
wipe_cache(events) == {}

SeqToSet(s) == {s[k] : k \in 1 .. Len(s)}

pending_identity_exists(rows, c) == c \in SeqToSet(rows)

delete_pending_identity(rows, c) == SelectSeq(rows, LAMBDA x : x # c)

\* oldest_pending_identity of a non-empty table.
oldest_pending_identity(rows) == Head(rows)

(***************************************************************************)
(* The contract (section 4.C).  Its log holds one leaf-insertion event per *)
(* block; every event carries the root the contract computed.              *)
(***************************************************************************)
\* assert_valid_root: the contract's current root or one of its past roots.
\* The retention window is taken to cover the whole log.
ValidRoots(log, leaves) ==
    {Root(EmptyTree.leaves), Root(leaves)} \cup {e.root_after : e \in SeqToSet(log)}

assert_valid_root(log, leaves, root) == root \in ValidRoots(log, leaves)

\* The confirmed leaf-insertion events of blocks after `block`, in log order.
confirmed_insertions(log, block) ==
    SelectSeq(log, LAMBDA e : e.block_number > block)

(***************************************************************************)
(* Chain subscriber, initial sync (section 4.D): Replay, then Catch-up.    *)
(***************************************************************************)
RECURSIVE Replay(_, _)
\* Apply the cached events, in order, with set(leaf_index, leaf_value).
Replay(t, events) ==
    IF events = <<>> THEN t
    ELSE Replay(TreeSet(t, Head(events).leaf_index, Head(events).leaf_value),
                Tail(events))

RECURSIVE CatchUp(_, _, _, _)
\* For each fetched event: append it to the cache, set it into the tree,
\* compare the tree's root with the event's root; a confirmed leaf's pending
\* row is removed.
CatchUp(events, c, t, rows) ==
    IF events = <<>>
    THEN [result |-> "Ok", cache |-> c, tree |-> t, pending |-> rows]
    ELSE LET e  == Head(events)
             c2 == append_event(c, e)
             t2 == TreeSet(t, e.leaf_index, e.leaf_value)
         IN  IF Root(t2.leaves) # e.root_after
             THEN [result |-> "RootMismatch", cache |-> c2, tree |-> t2,
                   pending |-> rows]
             ELSE CatchUp(Tail(events), c2, t2,
                          delete_pending_identity(rows, e.leaf_value))

process_initial_events(c, t, rows, log) ==
    LET sorted   == SortEvents(c)
        replayed == Replay(t, sorted)
    IN  IF c # {} /\ Root(replayed.leaves) # sorted[Len(sorted)].root_after
        THEN [result |-> "RootMismatch", cache |-> c, tree |-> replayed,
              pending |-> rows]
        ELSE CatchUp(confirmed_insertions(log, Max(last_cached_block(c), StartingBlock)),
                     c, replayed, rows)

(***************************************************************************)
(* State.                                                                  *)
(***************************************************************************)
VARIABLES
    appPc,               \* position of App::new; "serving" once Ok(app) is returned
    loadPc,              \* position of load_initial_events: top, process, returned
    root_mismatch_count, \* local of load_initial_events
    loadResult,          \* what load_initial_events returned: none, Ok, RootMismatch
    loadCalls,           \* calls made by the running load_initial_events
    tasks,               \* which of health check, subscriber, committer were started
    pending,             \* database: pending identities, oldest first
    cache,               \* database: cached events
    tree_state,          \* the in-memory tree: leaves and next_leaf
    chainLog,            \* contract: leaf-insertion events, one per block
    mempool,             \* submitted insertions not yet mined
    contractLeaves,      \* contract: its own leaves
    latestBlock,         \* chain: number of the latest block
    committerWaiting,    \* committer: the commitment whose confirmation it awaits, or 0
    subscriberEvent,     \* subscriber: the event it has set but not yet unqueued
    inflight,            \* requests in flight, a bag of call records
    ret,                 \* the response returned by the last step, if it was a return
    accepted,            \* commitments for which insert_identity returned Ok
    order,               \* the same commitments, in the order of the Ok responses
    proven,              \* commitments for which inclusion_proof returned a Proof
                         \* in this run
    restarts,            \* shutdown / start cycles so far
    lastTree,            \* the tree as it was at the last shutdown
    arcs,                \* which tree instance the App, the subscriber and
                         \* the committer hold, numbered as created
    parse                \* a call of parse_identity_commitments: its
                         \* arguments, its position, its locals, its result

vars == <<appPc, loadPc, root_mismatch_count, loadResult, loadCalls, tasks,
          pending, cache, tree_state, chainLog, mempool, contractLeaves,
          latestBlock, committerWaiting, subscriberEvent, inflight, ret,
          accepted, order, proven, restarts, lastTree, arcs, parse>>

appVars   == <<appPc, loadPc, root_mismatch_count, loadResult, loadCalls, tasks>>
chainVars == <<chainLog, mempool, contractLeaves, latestBlock>>
queryVars == <<inflight, accepted, order, proven>>
lifeVars  == <<restarts, lastTree, arcs, parse>>

NoEvent == Event(0, 0, InitialLeafValue, <<>>)
NoCalls == [process |-> 0, delete |-> 0, wipe |-> 0]
\* App::new: one Arc of the tree, cloned into the committer and the
\* subscriber.
NoArcs == [app |-> 0, subscriber |-> 0, committer |-> 0]
NoTasks == [health |-> FALSE, subscriber |-> FALSE, committer |-> FALSE]
\* No call of parse_identity_commitments.
NoParse ==
    [pc |-> "none", file |-> [kind |-> "missing", commitments |-> <<>>,
                             last_block |-> 0],
     logs |-> <<>>, tree |-> <<>>, last_index |-> 0, starting_block |-> 0,
     result |-> 0]
NoRet ==
    [op |-> "none", group_id |-> 0, commitment |-> 0, res |-> "none",
     after |-> FALSE, polled |-> FALSE, accesses |-> <<>>, root |-> <<>>,
     proof |-> <<>>]

\* The state in which App::new has built the App value (empty tree, fresh
\* subscriber and committer) and is about to run load_initial_events.
Init ==
    /\ appPc = "load"
    /\ loadPc = "top"
    /\ root_mismatch_count = 0
    /\ loadResult = "none"
    /\ loadCalls = NoCalls
    /\ tasks = NoTasks
    /\ pending = <<>>
    /\ cache = {}
    /\ tree_state = EmptyTree
    /\ chainLog = <<>>
    /\ mempool = <<>>
    /\ contractLeaves = EmptyTree.leaves
    /\ latestBlock = 0
    /\ committerWaiting = 0
    /\ subscriberEvent = NoEvent
    /\ inflight = EmptyBag
    /\ ret = NoRet
    /\ accepted = {}
    /\ order = <<>>
    /\ proven = {}
    /\ restarts = 0
    /\ lastTree = EmptyTree
    /\ arcs = NoArcs
    /\ parse = NoParse

(***************************************************************************)
(* App::load_initial_events and App::new.                                  *)
(***************************************************************************)
\* What the head of the recovery loop does for a mismatch count.
InvalidationStepEager(count) ==
    IF count >= 1 THEN "delete_most_recent"
    ELSE "none"

InvalidationStep(count) ==
    IF count = 1 THEN "delete_most_recent"
    ELSE IF count = 2 THEN "wipe_cache"
    ELSE IF count >= 3 THEN "return_root_mismatch"
    ELSE "none"

\* Variant whose wipe of the cache takes the pending identities with it.
LoadInitialEventsTopWipesPending ==
    /\ appPc = "load"
    /\ loadPc = "top"
    /\ LET step == InvalidationStep(root_mismatch_count)
       IN  /\ cache' = IF step = "delete_most_recent"
                       THEN delete_most_recent_cached_events(cache, CacheRecoveryStepSize)
                       ELSE IF step = "wipe_cache" THEN wipe_cache(cache)
                       ELSE cache
           /\ loadCalls' = IF step = "delete_most_recent"
                           THEN [loadCalls EXCEPT !.delete = @ + 1]
                           ELSE IF step = "wipe_cache"
                           THEN [loadCalls EXCEPT !.wipe = @ + 1]
                           ELSE loadCalls
           /\ loadPc' = IF step = "return_root_mismatch" THEN "returned" ELSE "process"
           /\ loadResult' = IF step = "return_root_mismatch" THEN "RootMismatch"
                            ELSE loadResult
    /\ ret' = NoRet
    /\ pending' = IF InvalidationStep(root_mismatch_count) = "wipe_cache"
                  THEN <<>> ELSE pending
    /\ UNCHANGED <<appPc, root_mismatch_count, tasks, tree_state,
                   committerWaiting, subscriberEvent>>
    /\ UNCHANGED <<chainVars, queryVars, lifeVars>>

\* Head of the loop: progressive cache invalidation, or giving up.
LoadInitialEventsTop ==
    /\ appPc = "load"
    /\ loadPc = "top"
    /\ LET step == InvalidationStep(root_mismatch_count)
       IN  /\ cache' = IF step = "delete_most_recent"
                       THEN delete_most_recent_cached_events(cache, CacheRecoveryStepSize)
                       ELSE IF step = "wipe_cache" THEN wipe_cache(cache)
                       ELSE cache
           /\ loadCalls' = IF step = "delete_most_recent"
                           THEN [loadCalls EXCEPT !.delete = @ + 1]
                           ELSE IF step = "wipe_cache"
                           THEN [loadCalls EXCEPT !.wipe = @ + 1]
                           ELSE loadCalls
           /\ loadPc' = IF step = "return_root_mismatch" THEN "returned" ELSE "process"
           /\ loadResult' = IF step = "return_root_mismatch" THEN "RootMismatch"
                            ELSE loadResult
    /\ ret' = NoRet
    /\ UNCHANGED <<appPc, root_mismatch_count, tasks, pending, tree_state,
                   committerWaiting, subscriberEvent>>
    /\ UNCHANGED <<chainVars, queryVars, lifeVars>>

\* The tree load_initial_events goes on with after an attempt.
TreeAfterAttemptAlwaysNew(result, t) == EmptyTree

\* Variant that retries over the tree the failed attempt has written to.
TreeAfterAttemptKept(result, t) == t

TreeAfterAttempt(result, t) ==
    IF result = "RootMismatch" THEN EmptyTree ELSE t

\* The RootMismatch arm: self.tree_state becomes a new Arc, and a new
\* subscriber is built over it and over the committer there already is.
ArcsAfterAttempt(result, a) ==
    IF result = "RootMismatch"
    THEN [a EXCEPT !.app = a.app + 1, !.subscriber = a.app + 1]
    ELSE a

\* One call of process_initial_events and the match on its result.
LoadInitialEventsProcess ==
    /\ appPc = "load"
    /\ loadPc = "process"
    /\ LET r == process_initial_events(cache, tree_state, pending, chainLog)
       IN  /\ cache' = r.cache
           /\ pending' = r.pending
           /\ tree_state' = TreeAfterAttempt(r.result, r.tree)
           /\ root_mismatch_count' = IF r.result = "RootMismatch"
                                     THEN root_mismatch_count + 1
                                     ELSE root_mismatch_count
           /\ loadPc' = IF r.result = "RootMismatch" THEN "top" ELSE "returned"
           /\ loadResult' = IF r.result = "RootMismatch" THEN loadResult ELSE "Ok"
           /\ arcs' = ArcsAfterAttempt(r.result, arcs)
           /\ UNCHANGED parse
    /\ loadCalls' = [loadCalls EXCEPT !.process = @ + 1]
    /\ ret' = NoRet
    /\ UNCHANGED <<appPc, tasks, committerWaiting, subscriberEvent>>
    /\ UNCHANGED <<chainVars, queryVars, restarts, lastTree>>

\* select!: load_initial_events has returned; its result is dropped and
\* App::new goes on to the health check.
AppNewSelect ==
    /\ appPc = "load"
    /\ loadPc = "returned"
    /\ appPc' = "check_health"
    /\ loadPc' = "top"
    /\ root_mismatch_count' = 0
    /\ loadCalls' = NoCalls
    /\ ret' = NoRet
    /\ UNCHANGED <<loadResult, tasks, pending, cache, tree_state,
                   committerWaiting, subscriberEvent>>
    /\ UNCHANGED <<chainVars, queryVars, lifeVars>>

\* chain_subscriber.check_health(): its outcome is not looked at.
AppNewCheckHealth ==
    /\ appPc = "check_health"
    /\ appPc' = "start_subscriber"
    /\ tasks' = [tasks EXCEPT !.health = TRUE]
    /\ ret' = NoRet
    /\ UNCHANGED <<loadPc, root_mismatch_count, loadResult, loadCalls, pending,
                   cache, tree_state, committerWaiting, subscriberEvent>>
    /\ UNCHANGED <<chainVars, queryVars, lifeVars>>

\* chain_subscriber.start(refresh_rate)
AppNewStartSubscriber ==
    /\ appPc = "start_subscriber"
    /\ appPc' = "start_committer"
    /\ tasks' = [tasks EXCEPT !.subscriber = TRUE]
    /\ ret' = NoRet
    /\ UNCHANGED <<loadPc, root_mismatch_count, loadResult, loadCalls, pending,
                   cache, tree_state, committerWaiting, subscriberEvent>>
    /\ UNCHANGED <<chainVars, queryVars, lifeVars>>

\* Variant that returns Ok(app) without having started the committer.
AppNewStartCommitterSkipped ==
    /\ appPc = "start_committer"
    /\ appPc' = "serving"
    /\ ret' = NoRet
    /\ UNCHANGED <<loadPc, root_mismatch_count, loadResult, loadCalls, tasks,
                   pending, cache, tree_state, committerWaiting, subscriberEvent>>
    /\ UNCHANGED <<chainVars, queryVars, lifeVars>>

\* identity_committer.start(), then Ok(app): the server takes the App.
AppNewStartCommitter ==
    /\ appPc = "start_committer"
    /\ appPc' = "serving"
    /\ tasks' = [tasks EXCEPT !.committer = TRUE]
    /\ ret' = NoRet
    /\ UNCHANGED <<loadPc, root_mismatch_count, loadResult, loadCalls, pending,
                   cache, tree_state, committerWaiting, subscriberEvent>>
    /\ UNCHANGED <<chainVars, queryVars, lifeVars>>

(***************************************************************************)
(* Identity committer (section 4.E), chain subscriber in its Watch phase   *)
(* (section 4.D) and the contract.                                         *)
(***************************************************************************)
\* Peek the oldest pending identity, read next_leaf, submit the insertion,
\* then wait for the subscriber to observe its event.
CommitterSubmit ==
    /\ tasks.committer
    /\ committerWaiting = 0
    /\ pending # <<>>
    /\ committerWaiting' = oldest_pending_identity(pending)
    /\ mempool' = Append(mempool, oldest_pending_identity(pending))
    /\ ret' = NoRet
    /\ UNCHANGED <<appVars, pending, cache, tree_state, subscriberEvent,
                   chainLog, contractLeaves, latestBlock>>
    /\ UNCHANGED <<queryVars, lifeVars>>

\* The contract mines the oldest submitted insertion into a new block.
ChainMine ==
    /\ mempool # <<>>
    /\ Len(chainLog) < NumLeaves
    /\ LET index  == Len(chainLog)
           leaves == [contractLeaves EXCEPT ![index] = Head(mempool)]
       IN  /\ contractLeaves' = leaves
           /\ chainLog' = Append(chainLog,
                  Event(latestBlock + 1, index, Head(mempool), Root(leaves)))
    /\ latestBlock' = latestBlock + 1
    /\ mempool' = Tail(mempool)
    /\ ret' = NoRet
    /\ UNCHANGED <<appVars, pending, cache, tree_state, committerWaiting,
                   subscriberEvent>>
    /\ UNCHANGED <<queryVars, lifeVars>>

\* A suspended request holds a read guard of the tree lock; write() is
\* granted only when no read guard is held.
ReadGuardHeld == \E call \in BagToSet(inflight) : call.guard

\* Watch, first half: fetch the next confirmed event, append it to the
\* cache and, under the write lock, set it into the tree; the root is then
\* compared with the event's.  On a mismatch the watcher ends.
SubscriberApply ==
    /\ tasks.subscriber
    /\ subscriberEvent = NoEvent
    /\ ~ReadGuardHeld
    /\ LET events == confirmed_insertions(chainLog,
                         Max(last_cached_block(cache), StartingBlock))
       IN  /\ events # <<>>
           /\ LET e == Head(events)
                  t == TreeSet(tree_state, e.leaf_index, e.leaf_value)
              IN  /\ cache' = append_event(cache, e)
                  /\ tree_state' = t
                  /\ subscriberEvent' = IF Root(t.leaves) = e.root_after
                                        THEN e ELSE NoEvent
                  /\ tasks' = IF Root(t.leaves) = e.root_after THEN tasks
                              ELSE [tasks EXCEPT !.subscriber = FALSE]
    /\ ret' = NoRet
    /\ UNCHANGED <<appPc, loadPc, root_mismatch_count, loadResult, loadCalls,
                   pending, committerWaiting>>
    /\ UNCHANGED <<chainVars, queryVars, lifeVars>>

\* Variant of the second half that leaves the pending row in place.
SubscriberRemovePendingKeepsRow ==
    /\ tasks.subscriber
    /\ subscriberEvent # NoEvent
    /\ committerWaiting' = IF committerWaiting = subscriberEvent.leaf_value
                           THEN 0 ELSE committerWaiting
    /\ subscriberEvent' = NoEvent
    /\ ret' = NoRet
    /\ UNCHANGED <<appVars, pending, cache, tree_state>>
    /\ UNCHANGED <<chainVars, queryVars, lifeVars>>

\* Watch, second half: remove the pending identity whose commitment equals
\* the observed leaf; the committer waiting for that commitment goes on.
SubscriberRemovePending ==
    /\ tasks.subscriber
    /\ subscriberEvent # NoEvent
    /\ pending' = delete_pending_identity(pending, subscriberEvent.leaf_value)
    /\ committerWaiting' = IF committerWaiting = subscriberEvent.leaf_value
                           THEN 0 ELSE committerWaiting
    /\ subscriberEvent' = NoEvent
    /\ ret' = NoRet
    /\ UNCHANGED <<appVars, cache, tree_state>>
    /\ UNCHANGED <<chainVars, queryVars, lifeVars>>

(***************************************************************************)
(* Query surface: App::insert_identity and App::inclusion_proof.           *)
(***************************************************************************)
\* InclusionProofResponse::to_response_code
to_response_code(res) ==
    IF res = "Proof" THEN "OK"
    ELSE IF res = "Pending" THEN "ACCEPTED"
    ELSE "error"

\* What a handler returns, with what it touched on the way (accesses).
Response(op, g, c, res, after, accesses, root, proof) ==
    [op |-> op, group_id |-> g, commitment |-> c, res |-> res, after |-> after,
     polled |-> c \in proven, accesses |-> accesses, root |-> root,
     proof |-> proof]

\* The response to a suspended request: what had been answered when the
\* request began is the request's.
ResponseTo(call, r) ==
    [r EXCEPT !.polled = call.polled]

\* A request suspended at an await: its position, its argument, what it
\* has read so far (root, proof) and what had been answered about the
\* commitment when it began (after: an Ok of insert_identity, polled: a
\* Proof of inclusion_proof).  Every read guard of the handlers is dropped
\* before the await the request is suspended at.
Call(op, pc, c, after, root, proof) ==
    [op |-> op, pc |-> pc, commitment |-> c, after |-> after, root |-> root,
     proof |-> proof, polled |-> c \in proven, guard |-> FALSE]

AddCall(call) == inflight (+) SetToBag({call})
DropCall(call) == inflight (-) SetToBag({call})
InFlight == BagToSet(inflight)

\* identity_is_reduced
identity_is_reduced(c) == c < SnarkScalarField

\* The input checks of insert_identity, in the order of the code, with the
\* error of the first one that fails, or "none".
ValidateInsertCommitmentFirst(g, c) ==
    IF c = InitialLeafValue THEN "InvalidCommitment"
    ELSE IF g # GroupId THEN "InvalidGroupId"
    ELSE IF ~identity_is_reduced(c) THEN "UnreducedCommitment"
    ELSE "none"

\* Variant without the check against the field's modulus.
ValidateInsertUnreducedAllowed(g, c) ==
    IF g # GroupId THEN "InvalidGroupId"
    ELSE IF c = InitialLeafValue THEN "InvalidCommitment"
    ELSE "none"

ValidateInsert(g, c) ==
    IF g # GroupId THEN "InvalidGroupId"
    ELSE IF c = InitialLeafValue THEN "InvalidCommitment"
    ELSE IF ~identity_is_reduced(c) THEN "UnreducedCommitment"
    ELSE "none"

\* Variant of the input checks of inclusion_proof without the check of the
\* initial leaf value.
ValidateProofGroupOnly(g, c) ==
    IF g # GroupId THEN "InvalidGroupId"
    ELSE "none"

\* The input checks of inclusion_proof.
ValidateProof(g, c) ==
    IF g # GroupId THEN "InvalidGroupId"
    ELSE IF c = InitialLeafValue THEN "InvalidCommitment"
    ELSE "none"

\* First duplicate check of insert_identity: the pending table.
QueuedDuplicate(rows, c) == pending_identity_exists(rows, c)

\* Second duplicate check of insert_identity: the leaves of the tree.
TreeDuplicateSkipped(t, c) == FALSE

TreeDuplicate(t, c) == InTree(t, c)

\* Variant with the lookup in the tree before that in the pending table.
DuplicateChecksTreeFirst == <<"tree_read", "pending_identity_exists">>

\* The two duplicate checks of insert_identity in the order of the code:
\* pending_identity_exists first, the tree under the read lock second.
DuplicateChecks == <<"pending_identity_exists", "tree_read">>

\* What a duplicate check finds in the current state.
IsDuplicate(check, c) ==
    IF check = "pending_identity_exists" THEN QueuedDuplicate(pending, c)
    ELSE TreeDuplicate(tree_state, c)

\* Rows the clients may still create: every request in flight may add one,
\* every row may add one event.
InsertionBudget ==
    Len(chainLog) + Len(mempool) + Len(pending)
        + BagCardinality([k \in {x \in InFlight : x.op = "insert"} |-> inflight[k]])
        < MaxInsertions

\* insert_identity up to its first await: the input checks and the lookup
\* of the commitment in the pending table.
InsertIdentityCall(g, c) ==
    /\ appPc = "serving"
    /\ BagCardinality(inflight) < NumClients
    /\ ValidateInsert(g, c) = "none" => InsertionBudget
    /\ LET after == c \in accepted
       IN  IF ValidateInsert(g, c) # "none"
           THEN /\ ret' = Response("insert", g, c, ValidateInsert(g, c), after,
                                   <<>>, <<>>, <<>>)
                /\ inflight' = inflight
           ELSE IF IsDuplicate(DuplicateChecks[1], c)
           THEN /\ ret' = Response("insert", g, c, "DuplicateCommitment", after,
                                   <<DuplicateChecks[1]>>, <<>>, <<>>)
                /\ inflight' = inflight
           ELSE /\ ret' = NoRet
                /\ inflight' = AddCall(Call("insert", "tree_read", c, after, <<>>, <<>>))
    /\ UNCHANGED <<appVars, pending, cache, tree_state, committerWaiting,
                   subscriberEvent, accepted, order, proven>>
    /\ UNCHANGED <<chainVars, lifeVars>>

\* insert_identity: the lookup of the commitment in the tree, under the
\* read lock.
InsertIdentityTreeRead(call) ==
    /\ call \in InFlight
    /\ call.op = "insert"
    /\ call.pc = "tree_read"
    /\ IF IsDuplicate(DuplicateChecks[2], call.commitment)
       THEN /\ ret' = Response("insert", GroupId, call.commitment,
                               "DuplicateCommitment", call.after,
                               DuplicateChecks, <<>>, <<>>)
            /\ inflight' = DropCall(call)
       ELSE /\ ret' = NoRet
            /\ inflight' = AddCall([call EXCEPT !.pc = "insert_pending_identity"])
                               (-) SetToBag({call})
    /\ UNCHANGED <<appVars, pending, cache, tree_state, committerWaiting,
                   subscriberEvent, accepted, order, proven>>
    /\ UNCHANGED <<chainVars, lifeVars>>

\* Variant that notifies and returns Ok without having written the row.
InsertIdentityInsertPendingNoRow(call) ==
    /\ call \in InFlight
    /\ call.op = "insert"
    /\ call.pc = "insert_pending_identity"
    /\ inflight' = DropCall(call)
    /\ ret' = Response("insert", GroupId, call.commitment, "Ok", call.after,
                       <<"pending_identity_exists", "tree_read", "notify_queued">>,
                       <<>>, <<>>)
    /\ accepted' = accepted \cup {call.commitment}
    /\ order' = Append(order, call.commitment)
    /\ UNCHANGED <<appVars, pending, cache, tree_state, committerWaiting,
                   subscriberEvent, proven>>
    /\ UNCHANGED <<chainVars, lifeVars>>

\* Variant that also sets the commitment into the tree at next_leaf.
InsertIdentityInsertPendingSetsLeaf(call) ==
    /\ call \in InFlight
    /\ call.op = "insert"
    /\ call.pc = "insert_pending_identity"
    /\ ~pending_identity_exists(pending, call.commitment)
    /\ tree_state.next_leaf < NumLeaves
    /\ inflight' = DropCall(call)
    /\ ret' = Response("insert", GroupId, call.commitment, "Ok", call.after,
                       <<"pending_identity_exists", "tree_read",
                         "insert_pending_identity", "notify_queued">>,
                       <<>>, <<>>)
    /\ pending' = Append(pending, call.commitment)
    /\ accepted' = accepted \cup {call.commitment}
    /\ order' = Append(order, call.commitment)
    /\ tree_state' = TreeSet(tree_state, tree_state.next_leaf, call.commitment)
    /\ UNCHANGED <<appVars, cache, committerWaiting, subscriberEvent, proven>>
    /\ UNCHANGED <<chainVars, lifeVars>>

\* Variant that calls notify_queued before insert_pending_identity.
InsertIdentityInsertPendingNotifiesFirst(call) ==
    /\ call \in InFlight
    /\ call.op = "insert"
    /\ call.pc = "insert_pending_identity"
    /\ inflight' = DropCall(call)
    /\ IF pending_identity_exists(pending, call.commitment)
       THEN /\ ret' = Response("insert", GroupId, call.commitment,
                               "DuplicateCommitment", call.after,
                               DuplicateChecks
                                   \o <<"notify_queued",
                                        "insert_pending_identity">>,
                               <<>>, <<>>)
            /\ UNCHANGED <<pending, accepted, order>>
       ELSE /\ ret' = Response("insert", GroupId, call.commitment, "Ok", call.after,
                               DuplicateChecks
                                   \o <<"notify_queued",
                                        "insert_pending_identity">>,
                               <<>>, <<>>)
            /\ pending' = Append(pending, call.commitment)
            /\ accepted' = accepted \cup {call.commitment}
            /\ order' = Append(order, call.commitment)
    /\ UNCHANGED <<appVars, cache, tree_state, committerWaiting, subscriberEvent,
                   proven>>
    /\ UNCHANGED <<chainVars, lifeVars>>

\* insert_identity: insert_pending_identity, which fails on a row that is
\* already there, then notify_queued and Ok.
InsertIdentityInsertPending(call) ==
    /\ call \in InFlight
    /\ call.op = "insert"
    /\ call.pc = "insert_pending_identity"
    /\ inflight' = DropCall(call)
    /\ IF pending_identity_exists(pending, call.commitment)
       THEN /\ ret' = Response("insert", GroupId, call.commitment,
                               "DuplicateCommitment", call.after,
                               DuplicateChecks \o <<"insert_pending_identity">>,
                               <<>>, <<>>)
            /\ UNCHANGED <<pending, accepted, order>>
       ELSE /\ ret' = Response("insert", GroupId, call.commitment, "Ok", call.after,
                               DuplicateChecks
                                   \o <<"insert_pending_identity",
                                        "notify_queued">>,
                               <<>>, <<>>)
            /\ pending' = Append(pending, call.commitment)
            /\ accepted' = accepted \cup {call.commitment}
            /\ order' = Append(order, call.commitment)
    /\ UNCHANGED <<appVars, cache, tree_state, committerWaiting, subscriberEvent,
                   proven>>
    /\ UNCHANGED <<chainVars, lifeVars>>

\* Variant that keeps the read guard over the awaits that follow.
InclusionProofCallKeepsGuard(g, c) ==
    /\ appPc = "serving"
    /\ BagCardinality(inflight) < NumClients
    /\ LET after == c \in accepted
           found == InTree(tree_state, c)
           root  == Root(tree_state.leaves)
           proof == Proof(tree_state.leaves, Position(tree_state, c))
       IN  IF ValidateProof(g, c) # "none"
           THEN /\ ret' = Response("proof", g, c, ValidateProof(g, c), after,
                                   <<>>, <<>>, <<>>)
                /\ UNCHANGED <<inflight, appPc>>
           ELSE IF found /\ ~Verify(tree_state.leaves, c, proof)
           THEN /\ ret' = Response("proof", g, c, "Panic", after, <<"tree_read">>,
                                   <<>>, <<>>)
                /\ appPc' = "panicked"
                /\ inflight' = inflight
           ELSE IF found
           THEN /\ ret' = NoRet
                /\ inflight' = AddCall([Call("proof", "assert_valid_root", c, after,
                                             root, proof)
                                        EXCEPT !.guard = TRUE])
                /\ appPc' = appPc
           ELSE /\ ret' = NoRet
                /\ inflight' = AddCall([Call("proof", "pending_identity_exists", c,
                                             after, <<>>, <<>>)
                                        EXCEPT !.guard = TRUE])
                /\ appPc' = appPc
    /\ UNCHANGED <<loadPc, root_mismatch_count, loadResult, loadCalls, tasks,
                   pending, cache, tree_state, committerWaiting, subscriberEvent,
                   accepted, order, proven>>
    /\ UNCHANGED <<chainVars, lifeVars>>

\* inclusion_proof up to the release of the read lock: the input checks,
\* then, under the lock, the lookup, the proof, the root and the local
\* verification, whose failure ends the process.
InclusionProofCall(g, c) ==
    /\ appPc = "serving"
    /\ BagCardinality(inflight) < NumClients
    /\ LET after == c \in accepted
           found == InTree(tree_state, c)
           root  == Root(tree_state.leaves)
           proof == Proof(tree_state.leaves, Position(tree_state, c))
       IN  IF ValidateProof(g, c) # "none"
           THEN /\ ret' = Response("proof", g, c, ValidateProof(g, c), after,
                                   <<>>, <<>>, <<>>)
                /\ UNCHANGED <<inflight, appPc>>
           ELSE IF found /\ ~Verify(tree_state.leaves, c, proof)
           THEN /\ ret' = Response("proof", g, c, "Panic", after, <<"tree_read">>,
                                   <<>>, <<>>)
                /\ appPc' = "panicked"
                /\ inflight' = inflight
           ELSE IF found
           THEN /\ ret' = NoRet
                /\ inflight' = AddCall(Call("proof", "assert_valid_root", c, after,
                                            root, proof))
                /\ appPc' = appPc
           ELSE /\ ret' = NoRet
                /\ inflight' = AddCall(Call("proof", "pending_identity_exists", c,
                                            after, <<>>, <<>>))
                /\ appPc' = appPc
    /\ UNCHANGED <<loadPc, root_mismatch_count, loadResult, loadCalls, tasks,
                   pending, cache, tree_state, committerWaiting, subscriberEvent,
                   accepted, order, proven>>
    /\ UNCHANGED <<chainVars, lifeVars>>

\* Variant that answers with the proof without asking the contract.
InclusionProofAssertValidRootUnchecked(call) ==
    /\ call \in InFlight
    /\ call.op = "proof"
    /\ call.pc = "assert_valid_root"
    /\ inflight' = DropCall(call)
    /\ ret' = ResponseTo(call,
                  Response("proof", GroupId, call.commitment, "Proof", call.after,
                       <<"tree_read", "assert_valid_root">>, call.root, call.proof))
    /\ proven' = proven \cup {call.commitment}
    /\ UNCHANGED <<appVars, pending, cache, tree_state, committerWaiting,
                   subscriberEvent, accepted, order>>
    /\ UNCHANGED <<chainVars, lifeVars>>

\* Variant that reads the root once more after the lock was released.
InclusionProofAssertValidRootRereads(call) ==
    /\ call \in InFlight
    /\ call.op = "proof"
    /\ call.pc = "assert_valid_root"
    /\ inflight' = DropCall(call)
    /\ ret' = ResponseTo(call,
                  Response("proof", GroupId, call.commitment,
                       IF assert_valid_root(chainLog, contractLeaves,
                                            Root(tree_state.leaves))
                       THEN "Proof" ELSE "RootMismatch",
                       call.after, <<"tree_read", "assert_valid_root">>,
                       Root(tree_state.leaves), call.proof))
    /\ proven' = IF assert_valid_root(chainLog, contractLeaves,
                                      Root(tree_state.leaves))
                 THEN proven \cup {call.commitment} ELSE proven
    /\ UNCHANGED <<appVars, pending, cache, tree_state, committerWaiting,
                   subscriberEvent, accepted, order>>
    /\ UNCHANGED <<chainVars, lifeVars>>

\* inclusion_proof, commitment found: the root is checked on chain.
InclusionProofAssertValidRoot(call) ==
    /\ call \in InFlight
    /\ call.op = "proof"
    /\ call.pc = "assert_valid_root"
    /\ inflight' = DropCall(call)
    /\ ret' = ResponseTo(call,
                  Response("proof", GroupId, call.commitment,
                       IF assert_valid_root(chainLog, contractLeaves, call.root)
                       THEN "Proof" ELSE "RootMismatch",
                       call.after, <<"tree_read", "assert_valid_root">>,
                       call.root, call.proof))
    /\ proven' = IF assert_valid_root(chainLog, contractLeaves, call.root)
                 THEN proven \cup {call.commitment} ELSE proven
    /\ UNCHANGED <<appVars, pending, cache, tree_state, committerWaiting,
                   subscriberEvent, accepted, order>>
    /\ UNCHANGED <<chainVars, lifeVars>>

\* inclusion_proof, commitment not found: the pending table decides.
InclusionProofPendingExists(call) ==
    /\ call \in InFlight
    /\ call.op = "proof"
    /\ call.pc = "pending_identity_exists"
    /\ inflight' = DropCall(call)
    /\ ret' = ResponseTo(call,
                  Response("proof", GroupId, call.commitment,
                       IF pending_identity_exists(pending, call.commitment)
                       THEN "Pending" ELSE "IdentityCommitmentNotFound",
                       call.after, <<"tree_read", "pending_identity_exists">>,
                       <<>>, <<>>))
    /\ UNCHANGED <<appVars, pending, cache, tree_state, committerWaiting,
                   subscriberEvent, accepted, order, proven>>
    /\ UNCHANGED <<chainVars, lifeVars>>

(***************************************************************************)
(* Database errors in insert_identity: both database calls are awaited     *)
(* with `?`.                                                               *)
(***************************************************************************)
\* pending_identity_exists fails.
InsertIdentityCallDatabaseError(g, c) ==
    /\ appPc = "serving"
    /\ BagCardinality(inflight) < NumClients
    /\ ValidateInsert(g, c) = "none"
    /\ ret' = Response("insert", g, c, "DatabaseError", c \in accepted,
                       <<"pending_identity_exists">>, <<>>, <<>>)
    /\ UNCHANGED <<appVars, pending, cache, tree_state, committerWaiting,
                   subscriberEvent, inflight, accepted, order, proven>>
    /\ UNCHANGED <<chainVars, lifeVars>>

\* insert_pending_identity fails without having written the row.
InsertIdentityInsertPendingDatabaseError(call) ==
    /\ call \in InFlight
    /\ call.op = "insert"
    /\ call.pc = "insert_pending_identity"
    /\ inflight' = DropCall(call)
    /\ ret' = Response("insert", GroupId, call.commitment, "DatabaseError",
                       call.after,
                       DuplicateChecks \o <<"insert_pending_identity">>,
                       <<>>, <<>>)
    /\ UNCHANGED <<appVars, pending, cache, tree_state, committerWaiting,
                   subscriberEvent, accepted, order, proven>>
    /\ UNCHANGED <<chainVars, lifeVars>>

(***************************************************************************)
(* Tree-lock timeouts on the query surface.  read() fails when a writer    *)
(* (a background task) keeps the lock for longer than lock_timeout.        *)
(***************************************************************************)
\* insert_identity: read() fails and the error is passed on with `?`.
InsertIdentityTreeReadTimeout(call) ==
    /\ call \in InFlight
    /\ call.op = "insert"
    /\ call.pc = "tree_read"
    /\ tasks.subscriber \/ tasks.committer
    /\ ret' = Response("insert", GroupId, call.commitment, "LockTimeout",
                       call.after,
                       <<"pending_identity_exists", "tree_read_timeout">>,
                       <<>>, <<>>)
    /\ inflight' = DropCall(call)
    /\ UNCHANGED <<appVars, pending, cache, tree_state, committerWaiting,
                   subscriberEvent, accepted, order, proven>>
    /\ UNCHANGED <<chainVars, lifeVars>>

\* Variant of the timeout in inclusion_proof that passes the error on.
InclusionProofCallTimeoutPropagated(g, c) ==
    /\ appPc = "serving"
    /\ BagCardinality(inflight) < NumClients
    /\ ValidateProof(g, c) = "none"
    /\ tasks.subscriber \/ tasks.committer
    /\ ret' = Response("proof", g, c, "LockTimeout", c \in accepted,
                       <<"tree_read_timeout">>, <<>>, <<>>)
    /\ UNCHANGED <<appVars, pending, cache, tree_state, committerWaiting,
                   subscriberEvent, inflight, accepted, order, proven>>
    /\ UNCHANGED <<chainVars, lifeVars>>

\* inclusion_proof: read() fails and the map_err closure panics.  The
\* request gets no answer; whether the panic ends only the request's task
\* or the whole process, with every task and request of it, is left to the
\* build (panic strategy, panic hook).
InclusionProofCallTimeout(g, c) ==
    /\ appPc = "serving"
    /\ BagCardinality(inflight) < NumClients
    /\ ValidateProof(g, c) = "none"
    /\ tasks.subscriber \/ tasks.committer
    /\ ret' = Response("proof", g, c, "Panic", c \in accepted,
                       <<"tree_read_timeout">>, <<>>, <<>>)
    /\ \/ /\ appPc' = "panicked"
          /\ tasks' = NoTasks
          /\ inflight' = EmptyBag
       \/ UNCHANGED <<appPc, tasks, inflight>>
    /\ UNCHANGED <<loadPc, root_mismatch_count, loadResult, loadCalls, pending,
                   cache, tree_state, committerWaiting, subscriberEvent,
                   accepted, order, proven>>
    /\ UNCHANGED <<chainVars, lifeVars>>

(***************************************************************************)
(* Shutdown and restart.  App::shutdown awaits the subscriber and the      *)
(* committer; the server lets the requests in flight complete first.       *)
(***************************************************************************)
Shutdown ==
    /\ appPc = "serving"
    /\ restarts < MaxRestarts
    /\ inflight = EmptyBag
    /\ committerWaiting = 0
    /\ subscriberEvent = NoEvent
    /\ appPc' = "down"
    /\ tasks' = NoTasks
    /\ loadResult' = "none"
    /\ lastTree' = tree_state
    /\ tree_state' = EmptyTree
    /\ arcs' = NoArcs
    /\ UNCHANGED parse
    /\ ret' = NoRet
    /\ UNCHANGED <<loadPc, root_mismatch_count, loadCalls, pending, cache,
                   committerWaiting, subscriberEvent, restarts>>
    /\ proven' = {}
    /\ UNCHANGED <<chainVars, inflight, accepted, order>>

\* App::new up to load_initial_events: a fresh tree, subscriber and committer
\* over the same database.
Start ==
    /\ appPc = "down"
    /\ appPc' = "load"
    /\ loadPc' = "top"
    /\ root_mismatch_count' = 0
    /\ loadCalls' = NoCalls
    /\ tree_state' = EmptyTree
    /\ restarts' = restarts + 1
    /\ arcs' = NoArcs
    /\ UNCHANGED parse
    /\ ret' = NoRet
    /\ UNCHANGED <<loadResult, tasks, pending, cache, committerWaiting,
                   subscriberEvent, lastTree>>
    /\ UNCHANGED <<chainVars, queryVars>>

\* Shutdown while the committer waits for the event of the insertion it has
\* submitted: the tasks end at their next suspension point.
ShutdownWaiting ==
    /\ appPc = "serving"
    /\ restarts < MaxRestarts
    /\ inflight = EmptyBag
    /\ committerWaiting # 0
    /\ subscriberEvent = NoEvent
    /\ appPc' = "down"
    /\ tasks' = NoTasks
    /\ loadResult' = "none"
    /\ lastTree' = tree_state
    /\ tree_state' = EmptyTree
    /\ arcs' = NoArcs
    /\ UNCHANGED parse
    /\ committerWaiting' = 0
    /\ proven' = {}
    /\ ret' = NoRet
    /\ UNCHANGED <<loadPc, root_mismatch_count, loadCalls, pending, cache,
                   subscriberEvent, restarts>>
    /\ UNCHANGED <<chainVars, inflight, accepted, order>>

RECURSIVE LoadLoop(_, _, _, _)
\* load_initial_events as a function of the database and the chain: the
\* result and what it leaves in the cache, the tree and the pending table.
LoadLoop(count, c, rows, log) ==
    LET step == InvalidationStep(count)
        c1   == IF step = "delete_most_recent"
                THEN delete_most_recent_cached_events(c, CacheRecoveryStepSize)
                ELSE IF step = "wipe_cache" THEN wipe_cache(c)
                ELSE c
        r    == process_initial_events(c1, EmptyTree, rows, log)
    IN  IF step = "return_root_mismatch"
        THEN [result |-> "RootMismatch", cache |-> c, tree |-> EmptyTree,
              pending |-> rows]
        ELSE IF r.result = "RootMismatch"
        THEN LoadLoop(count + 1, r.cache, r.pending, log)
        ELSE r

load_initial_events(c, rows, log) == LoadLoop(0, c, rows, log)

\* Variant of the interruption that goes on to start the background tasks.
AppNewInterruptedStartsTasks(n, half) ==
    /\ appPc = "load"
    /\ loadPc \in {"top", "process"}
    /\ restarts < MaxRestarts + MaxInterrupts
    /\ n = 0 /\ ~half
    /\ appPc' = "start_subscriber"
    /\ loadResult' = "Interrupted"
    /\ loadPc' = "top"
    /\ root_mismatch_count' = 0
    /\ loadCalls' = NoCalls
    /\ ret' = NoRet
    /\ UNCHANGED <<tasks, pending, cache, tree_state, committerWaiting,
                   subscriberEvent>>
    /\ arcs' = NoArcs
    /\ UNCHANGED parse
    /\ UNCHANGED <<chainVars, queryVars, restarts, lastTree>>

\* select!: the shutdown broadcast arrives first, the future of
\* load_initial_events is dropped at the await it is suspended at and
\* App::new returns Err("Interrupted").  A dropped process_initial_events
\* has processed n fetched events and, if half, has appended the next one to
\* the cache without having set it into the tree.
AppNewInterrupted(n, half) ==
    /\ appPc = "load"
    /\ loadPc \in {"top", "process"}
    /\ restarts < MaxRestarts + MaxInterrupts
    /\ LET sorted   == SortEvents(cache)
           replayed == Replay(tree_state, sorted)
           replayOk == ~(cache # {}
                          /\ Root(replayed.leaves) # sorted[Len(sorted)].root_after)
           events   == confirmed_insertions(chainLog,
                           Max(last_cached_block(cache), StartingBlock))
           m        == n + (IF half THEN 1 ELSE 0)
           r        == CatchUp(SubSeq(events, 1, n), cache, replayed, pending)
       IN  /\ m <= Len(events)
           /\ m > 0 => (loadPc = "process" /\ replayOk /\ r.result = "Ok")
           /\ cache' = IF m = 0 THEN cache
                       ELSE IF half THEN append_event(r.cache, events[n + 1])
                       ELSE r.cache
           /\ pending' = IF m = 0 THEN pending ELSE r.pending
    /\ appPc' = "down"
    /\ loadResult' = "Interrupted"
    /\ loadPc' = "top"
    /\ root_mismatch_count' = 0
    /\ loadCalls' = NoCalls
    /\ tree_state' = EmptyTree
    /\ ret' = NoRet
    /\ UNCHANGED <<tasks, committerWaiting, subscriberEvent>>
    /\ arcs' = NoArcs
    /\ UNCHANGED parse
    /\ UNCHANGED <<chainVars, queryVars, restarts, lastTree>>

(***************************************************************************)
(* Errors other than RootMismatch inside load_initial_events.              *)
(***************************************************************************)
\* What load_initial_events returns besides Ok and RootMismatch.
LoadErrors == {"DatabaseError", "ProviderError"}

\* Head of the loop: delete_most_recent_cached_events or wipe_cache fails
\* and the ? operator returns the error.
LoadInitialEventsTopFails ==
    /\ appPc = "load"
    /\ loadPc = "top"
    /\ InvalidationStep(root_mismatch_count) \in {"delete_most_recent", "wipe_cache"}
    /\ loadCalls' = IF InvalidationStep(root_mismatch_count) = "delete_most_recent"
                    THEN [loadCalls EXCEPT !.delete = @ + 1]
                    ELSE [loadCalls EXCEPT !.wipe = @ + 1]
    /\ loadPc' = "returned"
    /\ loadResult' = "DatabaseError"
    /\ ret' = NoRet
    /\ UNCHANGED <<appPc, root_mismatch_count, tasks, pending, cache, tree_state,
                   committerWaiting, subscriberEvent>>
    /\ UNCHANGED <<chainVars, queryVars, lifeVars>>

\* Variant that handles every error of process_initial_events the way the
\* RootMismatch arm does.
LoadInitialEventsProcessFailsRetried(n, half) ==
    /\ appPc = "load"
    /\ loadPc = "process"
    /\ LET sorted   == SortEvents(cache)
           replayed == Replay(tree_state, sorted)
           replayOk == ~(cache # {}
                          /\ Root(replayed.leaves) # sorted[Len(sorted)].root_after)
           events   == confirmed_insertions(chainLog,
                           Max(last_cached_block(cache), StartingBlock))
           m        == n + (IF half THEN 1 ELSE 0)
           r        == CatchUp(SubSeq(events, 1, n), cache, replayed, pending)
       IN  /\ m <= Len(events)
           /\ m > 0 => (replayOk /\ r.result = "Ok")
           /\ cache' = IF m = 0 THEN cache
                       ELSE IF half THEN append_event(r.cache, events[n + 1])
                       ELSE r.cache
           /\ pending' = IF m = 0 THEN pending ELSE r.pending
    /\ tree_state' = EmptyTree
    /\ root_mismatch_count' = root_mismatch_count + 1
    /\ arcs' = ArcsAfterAttempt("RootMismatch", arcs)
    /\ UNCHANGED parse
    /\ loadCalls' = [loadCalls EXCEPT !.process = @ + 1]
    /\ loadPc' = "top"
    /\ loadResult' = "ProviderError"
    /\ ret' = NoRet
    /\ UNCHANGED <<appPc, tasks, committerWaiting, subscriberEvent>>
    /\ UNCHANGED <<chainVars, queryVars, restarts, lastTree>>

\* process_initial_events fails with an error that is not RootMismatch (the
\* provider or the database), having processed n fetched events and, if
\* half, appended the next one to the cache; the Err(e) arm returns it.
LoadInitialEventsProcessFails(n, half) ==
    /\ appPc = "load"
    /\ loadPc = "process"
    /\ LET sorted   == SortEvents(cache)
           replayed == Replay(tree_state, sorted)
           replayOk == ~(cache # {}
                          /\ Root(replayed.leaves) # sorted[Len(sorted)].root_after)
           events   == confirmed_insertions(chainLog,
                           Max(last_cached_block(cache), StartingBlock))
           m        == n + (IF half THEN 1 ELSE 0)
           r        == CatchUp(SubSeq(events, 1, n), cache, replayed, pending)
       IN  /\ m <= Len(events)
           /\ m > 0 => (replayOk /\ r.result = "Ok")
           /\ cache' = IF m = 0 THEN cache
                       ELSE IF half THEN append_event(r.cache, events[n + 1])
                       ELSE r.cache
           /\ pending' = IF m = 0 THEN pending ELSE r.pending
           /\ tree_state' = IF m = 0 THEN tree_state ELSE r.tree
    /\ loadCalls' = [loadCalls EXCEPT !.process = @ + 1]
    /\ loadPc' = "returned"
    /\ loadResult' = "ProviderError"
    /\ ret' = NoRet
    /\ UNCHANGED <<appPc, root_mismatch_count, tasks, committerWaiting,
                   subscriberEvent>>
    /\ UNCHANGED <<chainVars, queryVars, lifeVars>>

(***************************************************************************)
(* What the chain may do while the service is stopped.                     *)
(***************************************************************************)
Orderings(S) ==
    {q \in [1 .. Cardinality(S) -> S] : \A a \in S : \E k \in DOMAIN q : q[k] = a}

\* A reorg drops the last k events of the log; their insertions return to
\* the mempool in any order and are mined again in later blocks.
ChainReorg(k) ==
    /\ appPc = "down"
    /\ k \in 1 .. Len(chainLog)
    /\ \A e \in SeqToSet(chainLog) : e \in cache
    /\ \A i \in LeafIndices : contractLeaves[i] # ForeignLeaf
    /\ LET kept    == SubSeq(chainLog, 1, Len(chainLog) - k)
           dropped == (Len(chainLog) - k + 1) .. Len(chainLog)
       IN  /\ chainLog' = kept
           /\ contractLeaves' = [i \in LeafIndices |->
                                    IF i < Len(kept) THEN contractLeaves[i]
                                    ELSE InitialLeafValue]
           /\ \E q \in Orderings(dropped) :
                  mempool' = mempool \o [n \in 1 .. k |-> chainLog[q[n]].leaf_value]
    /\ ret' = NoRet
    /\ UNCHANGED <<appVars, pending, cache, tree_state, committerWaiting,
                   subscriberEvent, latestBlock>>
    /\ UNCHANGED <<queryVars, lifeVars>>

\* A write to the contract's tree that is no leaf insertion (a member
\* update): it emits no leaf-insertion event and changes every later root.
ContractMemberUpdate ==
    /\ appPc = "down"
    /\ chainLog # <<>>
    /\ contractLeaves[0] # ForeignLeaf
    /\ contractLeaves' = [contractLeaves EXCEPT ![0] = ForeignLeaf]
    /\ ret' = NoRet
    /\ UNCHANGED <<appVars, pending, cache, tree_state, committerWaiting,
                   subscriberEvent, chainLog, mempool, latestBlock>>
    /\ UNCHANGED <<queryVars, lifeVars>>

(***************************************************************************)
(* Specifications.                                                         *)
(***************************************************************************)
\* One run of the service against a chain that mines what is submitted.
(***************************************************************************)
(* ethereum::parse_identity_commitments: leaves from a JSON file, then     *)
(* leaves from the LeafInsertion events of the contract.                   *)
(***************************************************************************)
\* Sequences over S of length at most n.
SeqsUpTo(S, n) == UNION {[1 .. k -> S] : k \in 0 .. n}

\* What File::open and serde_json::from_reader may meet at json_file_path:
\* no file, a file that does not parse, a JsonCommitment.
ParseFiles ==
    {[kind |-> k, commitments |-> <<>>, last_block |-> 0] :
         k \in {"missing", "unparsable"}}
    \cup {[kind |-> "ok", commitments |-> cs, last_block |-> b] :
              cs \in SeqsUpTo(1 .. MaxCommitment,
                              IF MaxFileCommitments < NumLeaves
                              THEN MaxFileCommitments ELSE NumLeaves),
              b \in 0 .. MaxParseBlock}

\* The contract's LeafInsertion log: the k-th event sets leaf k - 1, block
\* numbers do not decrease.
ParseLogs ==
    {[k \in 1 .. Len(ls) |->
         [leaf_index |-> k - 1, leaf |-> ls[k], block_number |-> bs[k]]] :
         <<ls, bs>> \in
             {q \in SeqsUpTo(1 .. MaxCommitment,
                             IF MaxParseEvents < NumLeaves
                             THEN MaxParseEvents ELSE NumLeaves)
                        \X SeqsUpTo(1 .. MaxParseBlock, MaxParseEvents) :
                  /\ Len(q[1]) = Len(q[2])
                  /\ \A a, b \in 1 .. Len(q[2]) : a <= b => q[2][a] <= q[2][b]}}

RECURSIVE SetCommitments(_, _, _)
\* for &commitment in &json_commitments.commitments
SetCommitments(commitments, tree, last_index) ==
    IF commitments = <<>> THEN [tree |-> tree, last_index |-> last_index]
    ELSE SetCommitments(Tail(commitments),
                        [tree EXCEPT ![last_index] = Head(commitments)],
                        last_index + 1)

\* Variant of the loop over the logs that moves last_index past the leaf.
RECURSIVE SetLogsNextFree(_, _, _)
SetLogsNextFree(logs, tree, last_index) ==
    IF logs = <<>> THEN [tree |-> tree, last_index |-> last_index]
    ELSE SetLogsNextFree(Tail(logs),
                         [tree EXCEPT ![Head(logs).leaf_index] = Head(logs).leaf],
                         Head(logs).leaf_index + 1)

RECURSIVE SetLogs(_, _, _)
\* for event in &logs
SetLogs(logs, tree, last_index) ==
    IF logs = <<>> THEN [tree |-> tree, last_index |-> last_index]
    ELSE SetLogs(Tail(logs),
                 [tree EXCEPT ![Head(logs).leaf_index] = Head(logs).leaf],
                 Head(logs).leaf_index)

\* leaf_insertion_filter().from_block(starting_block).query()
QueryLogs(logs, starting_block) ==
    SelectSeq(logs, LAMBDA e : e.block_number >= starting_block)

\* The call with its arguments: a path, an empty tree, the contract.
ParseStart(file, logs) ==
    [pc |-> "open", file |-> file, logs |-> logs,
     tree |-> [i \in LeafIndices |-> InitialLeafValue], last_index |-> 0,
     starting_block |-> 0, result |-> 0]

\* The match on File::open and on the parsed JSON.
ParseOpenFile ==
    /\ parse.pc = "open"
    /\ LET loaded == SetCommitments(parse.file.commitments, parse.tree,
                                    parse.last_index)
       IN  parse' = IF parse.file.kind = "ok"
                    THEN [parse EXCEPT !.pc = "query",
                                       !.tree = loaded.tree,
                                       !.last_index = loaded.last_index,
                                       !.starting_block = parse.file.last_block]
                    ELSE [parse EXCEPT !.pc = "query", !.starting_block = 0]
    /\ UNCHANGED <<appVars, pending, cache, tree_state, committerWaiting,
                   subscriberEvent, ret, restarts, lastTree, arcs>>
    /\ UNCHANGED <<chainVars, queryVars>>

\* filter.query().await? returns the provider's error: no event is applied
\* and no index is returned.
ParseQueryFails ==
    /\ parse.pc = "query"
    /\ parse' = [parse EXCEPT !.pc = "failed"]
    /\ UNCHANGED <<appVars, pending, cache, tree_state, committerWaiting,
                   subscriberEvent, ret, restarts, lastTree, arcs>>
    /\ UNCHANGED <<chainVars, queryVars>>

\* The query of the events, the loop over them and Ok(last_index).
ParseQueryLogs ==
    /\ parse.pc = "query"
    /\ LET applied == SetLogs(QueryLogs(parse.logs, parse.starting_block),
                              parse.tree, parse.last_index)
       IN  parse' = [parse EXCEPT !.pc = "done",
                                  !.tree = applied.tree,
                                  !.last_index = applied.last_index,
                                  !.result = applied.last_index]
    /\ UNCHANGED <<appVars, pending, cache, tree_state, committerWaiting,
                   subscriberEvent, ret, restarts, lastTree, arcs>>
    /\ UNCHANGED <<chainVars, queryVars>>

Next ==
    \/ LoadInitialEventsTop
    \/ LoadInitialEventsProcess
    \/ AppNewSelect
    \/ AppNewCheckHealth
    \/ AppNewStartSubscriber
    \/ AppNewStartCommitter
    \/ CommitterSubmit
    \/ ChainMine
    \/ SubscriberApply
    \/ SubscriberRemovePending
    \/ \E g \in Groups, c \in Commitments : InsertIdentityCall(g, c)
    \/ \E call \in InFlight : InsertIdentityTreeRead(call)
    \/ \E call \in InFlight : InsertIdentityInsertPending(call)
    \/ \E g \in Groups, c \in Commitments : InclusionProofCall(g, c)
    \/ \E call \in InFlight : InclusionProofAssertValidRoot(call)
    \/ \E call \in InFlight : InclusionProofPendingExists(call)

Spec == Init /\ [][Next]_vars

\* The client of insert_identity_and_proofs: a commitment is sent only when
\* every earlier request has been answered and inclusion_proof has returned
\* a Proof for every commitment accepted so far.
OneAtATime ==
    /\ inflight = EmptyBag
    /\ accepted \subseteq proven

\* Variant: a client that sends without waiting.
InsertIdentityCallSequentialUnwaited(g, c) ==
    InsertIdentityCall(g, c)

InsertIdentityCallSequential(g, c) ==
    /\ ValidateInsert(g, c) = "none" => OneAtATime
    /\ InsertIdentityCall(g, c)

\* One run with commitments inserted one at a time.
NextSequential ==
    \/ LoadInitialEventsTop
    \/ LoadInitialEventsProcess
    \/ AppNewSelect
    \/ AppNewCheckHealth
    \/ AppNewStartSubscriber
    \/ AppNewStartCommitter
    \/ CommitterSubmit
    \/ ChainMine
    \/ SubscriberApply
    \/ SubscriberRemovePending
    \/ \E g \in Groups, c \in Commitments : InsertIdentityCallSequential(g, c)
    \/ \E call \in InFlight : InsertIdentityTreeRead(call)
    \/ \E call \in InFlight : InsertIdentityInsertPending(call)
    \/ \E g \in Groups, c \in Commitments : InclusionProofCall(g, c)
    \/ \E call \in InFlight : InclusionProofAssertValidRoot(call)
    \/ \E call \in InFlight : InclusionProofPendingExists(call)

SpecSequential == Init /\ [][NextSequential]_vars

\* Runs with graceful shutdowns and restarts over the same database.
NextRestart == Next \/ Shutdown \/ Start

SpecRestart == Init /\ [][NextRestart]_vars

\* Restarts during which the chain reorganises or the contract is written to.
NextRecovery == NextRestart \/ (\E k \in 1 .. NumLeaves : ChainReorg(k)) \/ ContractMemberUpdate

SpecRecovery == Init /\ [][NextRecovery]_vars

\* One run in which startup, the committer, the subscriber and the chain
\* are scheduled fairly; clients are under no obligation.
Fairness ==
    /\ WF_vars(LoadInitialEventsTop)
    /\ WF_vars(LoadInitialEventsProcess)
    /\ WF_vars(AppNewSelect)
    /\ WF_vars(AppNewCheckHealth)
    /\ WF_vars(AppNewStartSubscriber)
    /\ WF_vars(AppNewStartCommitter)
    /\ WF_vars(CommitterSubmit)
    /\ WF_vars(ChainMine)
    /\ WF_vars(SubscriberApply)
    /\ WF_vars(SubscriberRemovePending)

SpecLive == Init /\ [][Next]_vars /\ Fairness

\* Restarts, reorgs while the service is down, and startups interrupted by
\* the shutdown broadcast; the clients insert and do not ask for proofs.
NextInterrupt ==
    \/ LoadInitialEventsTop
    \/ LoadInitialEventsProcess
    \/ AppNewSelect
    \/ AppNewCheckHealth
    \/ AppNewStartSubscriber
    \/ AppNewStartCommitter
    \/ CommitterSubmit
    \/ ChainMine
    \/ SubscriberApply
    \/ SubscriberRemovePending
    \/ \E g \in Groups, c \in Commitments : InsertIdentityCall(g, c)
    \/ \E call \in InFlight : InsertIdentityTreeRead(call)
    \/ \E call \in InFlight : InsertIdentityInsertPending(call)
    \/ Shutdown
    \/ Start
    \/ ShutdownWaiting
    \/ \E k \in 1 .. NumLeaves : ChainReorg(k)
    \/ \E n \in 0 .. NumLeaves, half \in BOOLEAN : AppNewInterrupted(n, half)

SpecInterrupt == Init /\ [][NextInterrupt]_vars

\* Restarts after reorgs, with startups in which a database or provider
\* call of load_initial_events fails.
NextLoadErrors ==
    \/ LoadInitialEventsTop
    \/ LoadInitialEventsProcess
    \/ AppNewSelect
    \/ AppNewCheckHealth
    \/ AppNewStartSubscriber
    \/ AppNewStartCommitter
    \/ CommitterSubmit
    \/ ChainMine
    \/ SubscriberApply
    \/ SubscriberRemovePending
    \/ \E g \in Groups, c \in Commitments : InsertIdentityCall(g, c)
    \/ \E call \in InFlight : InsertIdentityTreeRead(call)
    \/ \E call \in InFlight : InsertIdentityInsertPending(call)
    \/ Shutdown
    \/ Start
    \/ \E k \in 1 .. NumLeaves : ChainReorg(k)
    \/ LoadInitialEventsTopFails
    \/ \E n \in 0 .. NumLeaves, half \in BOOLEAN :
           LoadInitialEventsProcessFails(n, half)

SpecLoadErrors == Init /\ [][NextLoadErrors]_vars

\* Calls of parse_identity_commitments on every file and log of the bounds.
InitParse ==
    /\ appPc = "load"
    /\ loadPc = "top"
    /\ root_mismatch_count = 0
    /\ loadResult = "none"
    /\ loadCalls = NoCalls
    /\ tasks = NoTasks
    /\ pending = <<>>
    /\ cache = {}
    /\ tree_state = EmptyTree
    /\ chainLog = <<>>
    /\ mempool = <<>>
    /\ contractLeaves = EmptyTree.leaves
    /\ latestBlock = 0
    /\ committerWaiting = 0
    /\ subscriberEvent = NoEvent
    /\ inflight = EmptyBag
    /\ ret = NoRet
    /\ accepted = {}
    /\ order = <<>>
    /\ proven = {}
    /\ restarts = 0
    /\ lastTree = EmptyTree
    /\ arcs = NoArcs
    /\ \E file \in ParseFiles, logs \in ParseLogs : parse = ParseStart(file, logs)

NextParse ==
    \/ ParseOpenFile
    \/ ParseQueryLogs
    \/ ParseQueryFails

SpecParse == InitParse /\ [][NextParse]_vars

\* One run in which acquisitions of the tree lock may time out.
NextTimeout ==
    \/ Next
    \/ \E call \in InFlight : InsertIdentityTreeReadTimeout(call)
    \/ \E g \in Groups, c \in Commitments : InclusionProofCallTimeout(g, c)

SpecTimeout == Init /\ [][NextTimeout]_vars

\* One run in which insert_identity meets every error it can return.
NextInsertErrors ==
    \/ LoadInitialEventsTop
    \/ LoadInitialEventsProcess
    \/ AppNewSelect
    \/ AppNewCheckHealth
    \/ AppNewStartSubscriber
    \/ AppNewStartCommitter
    \/ CommitterSubmit
    \/ ChainMine
    \/ SubscriberApply
    \/ SubscriberRemovePending
    \/ \E g \in Groups, c \in Commitments : InsertIdentityCall(g, c)
    \/ \E call \in InFlight : InsertIdentityTreeRead(call)
    \/ \E call \in InFlight : InsertIdentityInsertPending(call)
    \/ \E call \in InFlight : InsertIdentityTreeReadTimeout(call)
    \/ \E g \in Groups, c \in Commitments : InsertIdentityCallDatabaseError(g, c)
    \/ \E call \in InFlight : InsertIdentityInsertPendingDatabaseError(call)

SpecInsertErrors == Init /\ [][NextInsertErrors]_vars

(***************************************************************************)
(* Properties.                                                             *)
(***************************************************************************)
IsLeaf(c) == InTree(tree_state, c)
IsPending(c) == pending_identity_exists(pending, c)

\* C1: an inclusion_proof for a commitment that insert_identity had already
\* accepted when the call began returns Pending or Proof, never
\* IdentityCommitmentNotFound, however its two reads interleave with the
\* subscriber's two steps.
C1_AcceptedProofIsPendingOrProof ==
    (ret.op = "proof" /\ ret.group_id = GroupId /\ ret.after)
        => ret.res \in {"Pending", "Proof"}

\* C2: within one run, every commitment for which insert_identity returned
\* Ok is a row of the pending table or a leaf of the tree.
C2_AcceptedIsPendingOrLeaf ==
    \A c \in accepted : IsPending(c) \/ IsLeaf(c)

\* An accepted commitment whose row is gone: it is a leaf only.
C2_Witness ==
    \E c \in accepted : IsLeaf(c) /\ ~IsPending(c)

\* C3: under fair scheduling of startup, committer, subscriber and chain,
\* every accepted commitment eventually is a leaf of the tree with no
\* pending row left.
C3_AcceptedEventuallyLeaf ==
    \A c \in ValidCommitments :
        (c \in accepted) ~> (IsLeaf(c) /\ ~IsPending(c))

\* Every valid commitment was accepted and all of them have landed.
C3_Witness ==
    /\ accepted = ValidCommitments
    /\ \A c \in accepted : IsLeaf(c) /\ ~IsPending(c)
    /\ mempool = <<>>

\* C4: an insert_identity that begins after the commitment was accepted
\* returns DuplicateCommitment.
C4_LaterInsertIsDuplicate ==
    (ret.op = "insert" /\ ret.group_id = GroupId /\ ret.after)
        => ret.res = "DuplicateCommitment"

\* A later insert refused by the tree lookup, the row being gone already.
C4_Witness ==
    /\ ret.op = "insert"
    /\ ret.after
    /\ ret.res = "DuplicateCommitment"
    /\ ret.accesses = <<"pending_identity_exists", "tree_read">>
    /\ ~IsPending(ret.commitment)

\* C5: no commitment other than the initial leaf value is at two leaf
\* indices of the tree.
C5_NoCommitmentAtTwoLeaves ==
    \A i, j \in LeafIndices :
        (i # j /\ tree_state.leaves[i] = tree_state.leaves[j])
            => tree_state.leaves[i] = InitialLeafValue

\* C6 as stated: no commitment is a leaf of the tree and a row of the
\* pending table at the same time.
C6_NeverLeafAndPending ==
    \A c \in ValidCommitments : ~(IsLeaf(c) /\ IsPending(c))

\* C6: the subscriber sets the leaf of an event while the commitment's
\* pending row is still there, and when it is done with the event the
\* commitment is a leaf and has no pending row.
C6_SubscriberSetsThenUnqueues ==
    [][/\ (subscriberEvent = NoEvent /\ subscriberEvent' # NoEvent)
            => /\ InTree(tree_state', subscriberEvent'.leaf_value)
               /\ pending' = pending
       /\ (subscriberEvent # NoEvent /\ subscriberEvent' = NoEvent)
            => /\ InTree(tree_state', subscriberEvent.leaf_value)
               /\ ~pending_identity_exists(pending', subscriberEvent.leaf_value)
               /\ tree_state' = tree_state]_vars

\* The subscriber between its two steps: the commitment is in both.
C6_Witness ==
    /\ subscriberEvent # NoEvent
    /\ IsLeaf(subscriberEvent.leaf_value)
    /\ IsPending(subscriberEvent.leaf_value)

\* C7: one load_initial_events calls process_initial_events at most three
\* times, once per mismatch so far plus the attempt that succeeds; it calls
\* delete_most_recent_cached_events exactly once, between the first mismatch
\* and the second attempt, and wipe_cache exactly once, between the second
\* mismatch and the third attempt; neither without a mismatch.
C7_ProgressiveInvalidation ==
    /\ root_mismatch_count <= 3
    /\ loadCalls.process <= 3
    /\ loadCalls.process = root_mismatch_count
           + (IF loadPc = "returned" /\ loadResult = "Ok" THEN 1 ELSE 0)
    /\ loadCalls.delete =
           (IF root_mismatch_count >= 2 \/ (root_mismatch_count = 1 /\ loadPc # "top")
            THEN 1 ELSE 0)
    /\ loadCalls.wipe =
           (IF root_mismatch_count >= 3 \/ (root_mismatch_count = 2 /\ loadPc # "top")
            THEN 1 ELSE 0)
    /\ (loadPc = "returned" /\ loadResult = "RootMismatch") => root_mismatch_count = 3

\* A startup that succeeded at the third attempt, after one deletion of the
\* most recent cached events and one wipe.
C7_Witness ==
    /\ loadPc = "returned"
    /\ loadResult = "Ok"
    /\ loadCalls = [process |-> 3, delete |-> 1, wipe |-> 1]

\* C8: after load_initial_events has given up with RootMismatch, App::new
\* does not run the health check, starts neither the chain watcher nor the
\* identity committer and hands no App to the server.
C8_RootMismatchFailsStartup ==
    loadResult = "RootMismatch"
        => /\ tasks = NoTasks
           /\ appPc \notin {"start_subscriber", "start_committer", "serving"}

\* C9: after a restart over the same database, with a chain that holds
\* exactly the events the tree had applied at shutdown, the rebuilt tree has
\* the leaves, next_leaf and root of the tree at shutdown, and
\* inclusion_proof for a commitment included at shutdown returns the root
\* and proof that tree gave.
C9_RestartRebuildsTree ==
    (restarts > 0 /\ lastTree.next_leaf = Len(chainLog) /\ Len(mempool) = 0)
        => /\ appPc \in {"check_health", "start_subscriber", "start_committer",
                         "serving"}
               => /\ tree_state = lastTree
                  /\ Root(tree_state.leaves) = Root(lastTree.leaves)
           /\ (ret.op = "proof" /\ ret.group_id = GroupId
                   /\ ret.commitment # InitialLeafValue
                   /\ InTree(lastTree, ret.commitment))
               => /\ ret.res = "Proof"
                  /\ ret.root = Root(lastTree.leaves)
                  /\ ret.proof = Proof(lastTree.leaves,
                                       Position(lastTree, ret.commitment))

\* A proof served after a restart for a commitment included before it,
\* from a tree of two leaves.
C9_Witness ==
    /\ restarts > 0
    /\ lastTree.next_leaf = Len(chainLog)
    /\ lastTree.next_leaf >= 2
    /\ ret.op = "proof"
    /\ ret.res = "Proof"
    /\ ret.commitment # InitialLeafValue
    /\ InTree(lastTree, ret.commitment)

\* C10: insert_identity answers InvalidGroupId for a foreign group, else
\* InvalidCommitment for the initial leaf value, else UnreducedCommitment
\* for a commitment not below the field modulus, whatever the tree and the
\* pending table hold, and has then touched neither; any other request
\* gets past the input checks to the duplicate checks.
C10_InputChecksInOrder ==
    ret.op = "insert"
        => /\ ret.group_id # GroupId
                => ret.res = "InvalidGroupId"
           /\ (ret.group_id = GroupId /\ ret.commitment = InitialLeafValue)
                => ret.res = "InvalidCommitment"
           /\ (ret.group_id = GroupId /\ ret.commitment # InitialLeafValue
                   /\ ret.commitment >= SnarkScalarField)
                => ret.res = "UnreducedCommitment"
           /\ ret.res \in {"InvalidGroupId", "InvalidCommitment", "UnreducedCommitment"}
                => ret.accesses = <<>>
           /\ (ret.group_id = GroupId /\ ret.commitment # InitialLeafValue
                   /\ ret.commitment < SnarkScalarField)
                => /\ ret.res \in {"Ok", "DuplicateCommitment"}
                   /\ ret.accesses # <<>>

\* A request for a foreign group whose commitment is the initial leaf value,
\* made while another commitment is queued: the group decides.
C10_Witness ==
    /\ ret.op = "insert"
    /\ ret.group_id # GroupId
    /\ ret.commitment = InitialLeafValue
    /\ ret.res = "InvalidGroupId"
    /\ pending # <<>>

\* C11: inclusion_proof for the initial leaf value answers InvalidCommitment
\* (InvalidGroupId for a foreign group) whatever the tree holds, without
\* reading the tree or the database, and so never with a proof of an empty
\* slot.
C11_InitialLeafHasNoProof ==
    (ret.op = "proof" /\ ret.commitment = InitialLeafValue)
        => /\ ret.res = (IF ret.group_id = GroupId THEN "InvalidCommitment"
                         ELSE "InvalidGroupId")
           /\ ret.accesses = <<>>
           /\ ret.proof = <<>>

\* The query made on a tree that holds a leaf and still has empty slots.
C11_Witness ==
    /\ ret.op = "proof"
    /\ ret.group_id = GroupId
    /\ ret.commitment = InitialLeafValue
    /\ ret.res = "InvalidCommitment"
    /\ tree_state.next_leaf >= 1
    /\ \E i \in LeafIndices : tree_state.leaves[i] = InitialLeafValue

\* An inclusion_proof has returned and the tree is as the call read it: the
\* root it read is the tree's root, or the commitment it did not find is
\* still no leaf.
ProofReturnedQuietly ==
    /\ ret.op = "proof"
    /\ ret.group_id = GroupId
    /\ ret.commitment # InitialLeafValue
    /\ \/ /\ ret.accesses = <<"tree_read", "assert_valid_root">>
          /\ ret.root = Root(tree_state.leaves)
       \/ /\ ret.accesses = <<"tree_read", "pending_identity_exists">>
          /\ ~IsLeaf(ret.commitment)

\* C12: with no subscriber write between the reads of the call,
\* inclusion_proof answers Proof (code OK, with the tree's root and the
\* proof of the commitment's first index) exactly when the commitment is a
\* leaf and the contract accepts the root, RootMismatch exactly when it is
\* a leaf and the root is rejected, Pending (code ACCEPTED) exactly when it
\* is no leaf and has a pending row, IdentityCommitmentNotFound exactly when
\* it is neither.
C12_ProofResponseMatchesState ==
    ProofReturnedQuietly
        => LET c     == ret.commitment
               valid == assert_valid_root(chainLog, contractLeaves,
                                          Root(tree_state.leaves))
           IN  /\ ret.res = "Proof" <=> (IsLeaf(c) /\ valid)
               /\ ret.res = "RootMismatch" <=> (IsLeaf(c) /\ ~valid)
               /\ ret.res = "Pending" <=> (~IsLeaf(c) /\ IsPending(c))
               /\ ret.res = "IdentityCommitmentNotFound"
                      <=> (~IsLeaf(c) /\ ~IsPending(c))
               /\ ret.res = "Proof"
                      => /\ to_response_code(ret.res) = "OK"
                         /\ ret.root = Root(tree_state.leaves)
                         /\ ret.proof = Proof(tree_state.leaves,
                                              Position(tree_state, c))
               /\ ret.res = "Pending" => to_response_code(ret.res) = "ACCEPTED"

\* A leaf whose root the contract rejects.
C12_Witness ==
    /\ ProofReturnedQuietly
    /\ ret.res = "RootMismatch"
    /\ IsLeaf(ret.commitment)

\* The step was a handler returning because the tree lock timed out.
LockTimedOut ==
    /\ ret.op # "none"
    /\ ret.accesses # <<>>
    /\ ret.accesses[Len(ret.accesses)] = "tree_read_timeout"

C14_InterruptedLeavesUsableCache ==
    loadResult = "Interrupted"
        => /\ tasks = NoTasks
           /\ appPc \in {"down", "load"}
           /\ LET r == load_initial_events(cache, pending, chainLog)
              IN  /\ r.result = "Ok"
                  /\ \A i \in LeafIndices :
                         i < Len(chainLog) => r.tree.leaves[i] = contractLeaves[i]

\* An interrupted catch-up that left the cache with some but not all of the
\* chain's events.
C14_Witness ==
    /\ loadResult = "Interrupted"
    /\ appPc = "down"
    /\ cache # {}
    /\ \E e \in SeqToSet(chainLog) : e \notin cache
    /\ \E e \in cache : e.leaf_index >= lastTree.next_leaf

\* C15: the health check runs only after a successful initial sync, the
\* watcher starts only after the health check, the committer only after the
\* watcher, and requests are served only after the committer has started;
\* no insertion is submitted to the chain and no request is answered unless
\* the initial sync of this startup returned Ok.
C15_StartupStepsAfterSuccessfulSync ==
    /\ tasks.health => loadResult = "Ok"
    /\ (tasks.subscriber \/ tasks.committer) => tasks.health
    /\ tasks.committer => appPc = "serving"
    /\ appPc = "serving" => tasks.committer
    /\ (ret.op \in {"insert", "proof"} \/ committerWaiting # 0)
           => loadResult = "Ok"

\* C16: a step of insert_identity or inclusion_proof (a request begins,
\* goes on or returns, with a result or an error) and a step of the
\* committer leave the tree as it is; the tree changes only when the
\* subscriber sets the leaf of a chain event or when a startup rebuilds it.
C16_TreeWrittenBySubscriberOnly ==
    [][/\ (inflight' # inflight \/ ret'.op # "none"
              \/ (committerWaiting = 0 /\ committerWaiting' # 0))
            => tree_state' = tree_state
       /\ tree_state' # tree_state
            => \/ appPc = "load"
               \/ /\ tasks.subscriber
                  /\ subscriberEvent = NoEvent
                  /\ \E e \in SeqToSet(chainLog) :
                         tree_state' = TreeSet(tree_state, e.leaf_index,
                                               e.leaf_value)]_vars

\* insert_identity has returned Ok next to a tree that holds a leaf.
C16_Witness ==
    /\ ret.op = "insert"
    /\ ret.res = "Ok"
    /\ tree_state.next_leaf >= 1
    /\ tree_state.next_leaf < Len(order)

\* C18: within one run (no reorg, no rebuild) every inclusion_proof call
\* made with the group's id for an accepted commitment answers Pending or
\* Proof, and a call made
\* after a Proof was returned for the commitment answers Proof.
C18_PendingThenProofOnly ==
    (ret.op = "proof" /\ ret.group_id = GroupId /\ ret.after)
        => /\ ret.res \in {"Pending", "Proof"}
           /\ ret.polled => ret.res = "Proof"

\* C18, the part about the responses after the first Proof: a call made
\* after a Proof was returned for the commitment answers neither Pending nor
\* IdentityCommitmentNotFound.
C18_NoPendingAfterProof ==
    (ret.op = "proof" /\ ret.polled)
        => ret.res \notin {"Pending", "IdentityCommitmentNotFound"}

\* A Proof is returned to a call made after an earlier Proof for the same
\* commitment.
C18_Witness ==
    /\ ret.op = "proof"
    /\ ret.res = "Proof"
    /\ ret.after
    /\ ret.polled

\* C19: with commitments inserted one at a time, each waited for until
\* inclusion_proof returns a Proof, the k-th accepted commitment is at leaf
\* index k-1 once it is in the tree, and the first Proof returned for it
\* carries the root and proof(k-1) of the reference tree holding the first k
\* accepted commitments in acceptance order; a later Proof for it carries
\* those of the reference tree holding the first n accepted, k <= n.
C19_SequentialMatchesReferenceTree ==
    \A k \in 1 .. Len(order) :
        /\ IsLeaf(order[k]) => Position(tree_state, order[k]) = k - 1
        /\ (ret.op = "proof" /\ ret.res = "Proof" /\ ret.commitment = order[k])
             => /\ \E n \in k .. Len(order) :
                       /\ ret.root = Root(ReferenceLeaves(order, n))
                       /\ ret.proof = Proof(ReferenceLeaves(order, n), k - 1)
                /\ ~ret.polled
                     => /\ k = Len(order)
                        /\ ret.root = Root(ReferenceLeaves(order, k))
                        /\ ret.proof = Proof(ReferenceLeaves(order, k), k - 1)

\* The second accepted commitment gets its first Proof.
C19_Witness ==
    /\ Len(order) = 2
    /\ ret.op = "proof"
    /\ ret.res = "Proof"
    /\ ret.commitment = order[2]
    /\ ~ret.polled
    /\ ret.root = Root(ReferenceLeaves(order, 2))

C21_NoGuardAcrossAwait ==
    \A call \in InFlight :
        (call.op = "proof"
            /\ call.pc \in {"assert_valid_root", "pending_identity_exists"})
            => /\ ~call.guard
               /\ ~ReadGuardHeld

\* The subscriber has written to the tree while an inclusion_proof request
\* was waiting for assert_valid_root.
C21_Witness ==
    \E call \in InFlight :
        /\ call.op = "proof"
        /\ call.pc = "assert_valid_root"
        /\ call.root # Root(tree_state.leaves)

\* Position of a duplicate check among the accesses of a response, 0 when
\* the handler did not get to it.
AccessIndex(accesses, check) ==
    IF \E i \in 1 .. Len(accesses) : accesses[i] = check
    THEN CHOOSE i \in 1 .. Len(accesses) : accesses[i] = check
    ELSE 0

\* C22 as stated: insert_identity looks the commitment up in the tree before
\* it asks pending_identity_exists; a call that got to the pending table has
\* read the tree before.
C22_TreeBeforePending ==
    (ret.op = "insert"
        /\ AccessIndex(ret.accesses, "pending_identity_exists") # 0)
        => /\ AccessIndex(ret.accesses, "tree_read") # 0
           /\ AccessIndex(ret.accesses, "tree_read")
                  < AccessIndex(ret.accesses, "pending_identity_exists")

\* C22, as the code has it: insert_identity asks pending_identity_exists
\* before it looks the commitment up in the tree; a call that got to the
\* tree has asked the pending table before.
C22_PendingBeforeTree ==
    (ret.op = "insert" /\ AccessIndex(ret.accesses, "tree_read") # 0)
        => /\ AccessIndex(ret.accesses, "pending_identity_exists") # 0
           /\ AccessIndex(ret.accesses, "pending_identity_exists")
                  < AccessIndex(ret.accesses, "tree_read")

\* insert_identity answers DuplicateCommitment for a commitment it did not
\* find in the pending table and then found in the tree.
C22_Witness ==
    /\ ret.op = "insert"
    /\ ret.res = "DuplicateCommitment"
    /\ ret.accesses = <<"pending_identity_exists", "tree_read">>
    /\ IsLeaf(ret.commitment)
    /\ ~IsPending(ret.commitment)

\* C23: once startup has finished, whatever number of RootMismatch rounds
\* it took, the committer, the subscriber and the query surface (the App)
\* hold one and the same tree instance.
C23_OneTreeInstance ==
    appPc = "serving"
        => /\ arcs.committer = arcs.subscriber
           /\ arcs.subscriber = arcs.app

\* C24: every attempt of process_initial_events, the first one and each
\* retry after a RootMismatch, starts from the empty tree, and the tree it
\* leaves is the one the attempt builds from the empty tree (the empty tree
\* itself when the attempt fails): nothing an earlier, failed attempt has
\* set is in it unless this attempt has set it again.
C24_RetryStartsFromEmptyTree ==
    /\ []((appPc = "load" /\ loadPc \in {"top", "process"})
              => tree_state = EmptyTree)
    /\ [][(appPc = "load" /\ loadPc = "process" /\ appPc' = "load"
              /\ loadPc' \in {"top", "returned"})
            => LET fresh == process_initial_events(cache, EmptyTree, pending,
                                                   chainLog)
               IN  tree_state' = IF fresh.result = "RootMismatch"
                                 THEN EmptyTree ELSE fresh.tree]_vars

\* The service runs on a tree that holds leaves and was built by a retry
\* after a RootMismatch.
C24_Witness ==
    /\ appPc = "serving"
    /\ arcs.app >= 1
    /\ loadResult = "Ok"
    /\ tree_state.next_leaf >= 1

\* C25: when a cache-invalidation step or process_initial_events fails with
\* an error that is not RootMismatch, the step that meets the error is the
\* return of load_initial_events: the mismatch count stays, no new tree is
\* built, no cached event is deleted, and no further step of the loop is
\* taken.
C25_OtherErrorsReturnAtOnce ==
    /\ []((appPc = "load" /\ loadResult \in LoadErrors) => loadPc = "returned")
    /\ [][(loadResult \notin LoadErrors /\ loadResult' \in LoadErrors)
            => /\ loadPc' = "returned"
               /\ root_mismatch_count' = root_mismatch_count
               /\ arcs' = arcs
               /\ cache \subseteq cache'
               /\ loadCalls'.process + loadCalls'.delete + loadCalls'.wipe
                      = loadCalls.process + loadCalls.delete + loadCalls.wipe + 1]_vars
    /\ [][(appPc = "load" /\ loadResult \in LoadErrors /\ appPc' = "load")
            => UNCHANGED <<cache, tree_state, root_mismatch_count, arcs,
                           loadCalls>>]_vars

\* load_initial_events has returned a database error from the deletion of
\* the most recent cached events, after one RootMismatch.
C25_Witness ==
    /\ appPc = "load"
    /\ loadPc = "returned"
    /\ loadResult = "DatabaseError"
    /\ root_mismatch_count = 1
    /\ loadCalls.delete = 1
    /\ cache # {}

\* The errors insert_identity returns.
InsertErrors ==
    {"InvalidGroupId", "InvalidCommitment", "UnreducedCommitment",
     "DuplicateCommitment", "LockTimeout", "DatabaseError"}

\* C26: the step in which insert_identity returns an error leaves the
\* pending table and the tree as they are and has not called notify_queued,
\* as does every step of a request that goes on; the step in which it
\* returns Ok adds exactly the row of its commitment to the pending table,
\* and notify_queued is its last call, right after insert_pending_identity.
C26_InsertErrorsChangeNothing ==
    [][/\ (ret'.op = "insert" /\ ret'.res # "Ok")
            => /\ ret'.res \in InsertErrors
               /\ pending' = pending
               /\ tree_state' = tree_state
               /\ AccessIndex(ret'.accesses, "notify_queued") = 0
       /\ (ret'.op = "none" /\ inflight' # inflight /\ appPc' = "serving")
            => /\ pending' = pending
               /\ tree_state' = tree_state
       /\ (ret'.op = "insert" /\ ret'.res = "Ok")
            => /\ pending' = Append(pending, ret'.commitment)
               /\ ret'.group_id = GroupId
               /\ tree_state' = tree_state
               /\ Len(ret'.accesses) >= 2
               /\ ret'.accesses[Len(ret'.accesses)] = "notify_queued"
               /\ ret'.accesses[Len(ret'.accesses) - 1] = "insert_pending_identity"
               /\ \A i \in 1 .. (Len(ret'.accesses) - 1) :
                      ret'.accesses[i] # "notify_queued"]_vars

\* insert_identity returns the database error of insert_pending_identity,
\* its last call; no row of the commitment is there.
C26_Witness ==
    /\ ret.op = "insert"
    /\ ret.res = "DatabaseError"
    /\ AccessIndex(ret.accesses, "insert_pending_identity") # 0
    /\ ~IsPending(ret.commitment)

\* The shape of a tree state: nothing but the initial leaf from next_leaf
\* on, field elements below it.
TreeWellFormed(t) ==
    \A i \in LeafIndices :
        /\ i >= t.next_leaf => t.leaves[i] = InitialLeafValue
        /\ i < t.next_leaf => t.leaves[i] < SnarkScalarField

\* C27: in every state, from the construction of the tree through replayed
\* and caught-up events, watched events and recovery resets, every leaf at
\* an index >= next_leaf is the initial leaf and every leaf below next_leaf
\* is less than p; a newly built tree has next_leaf = 0.
C27_TreeShape ==
    /\ TreeWellFormed(tree_state)
    /\ TreeWellFormed(EmptyTree)
    /\ EmptyTree.next_leaf = 0
    /\ (appPc = "load" /\ loadPc \in {"top", "process"})
           => tree_state.next_leaf = 0

\* After a restart with a recovery round the tree holds two leaves.
C27_Witness ==
    /\ appPc = "serving"
    /\ restarts >= 1
    /\ arcs.app >= 1
    /\ tree_state.next_leaf = 2
    /\ tree_state.leaves[0] # InitialLeafValue
    /\ tree_state.leaves[1] # InitialLeafValue

\* C28: no step of load_initial_events adds, changes or reorders a pending
\* identity; the invalidation steps (delete_most_recent_cached_events,
\* wipe_cache) leave the table as it is, and a row an attempt of
\* process_initial_events removes is that of a commitment the attempt has
\* observed as the leaf of an event it fetched from the chain.
C28_RecoveryKeepsPending ==
    [][(appPc = "load" /\ appPc' = "load")
          => /\ pending' = SelectSeq(pending,
                               LAMBDA c : c \in SeqToSet(pending'))
             /\ loadPc = "top" => pending' = pending
             /\ \A c \in SeqToSet(pending) \ SeqToSet(pending') :
                    \E e \in SeqToSet(confirmed_insertions(chainLog,
                                   Max(last_cached_block(cache), StartingBlock))) :
                        e.leaf_value = c]_vars

\* The cache has been wiped in the second recovery round and the pending
\* identities are still there.
C28_Witness ==
    /\ appPc = "load"
    /\ loadPc = "process"
    /\ root_mismatch_count = 2
    /\ loadCalls.wipe = 1
    /\ cache = {}
    /\ pending # <<>>

\* Indices of the tree of a finished call that hold a leaf.
ParseWritten == {i \in LeafIndices : parse.tree[i] # InitialLeafValue}

\* C29 as stated: the value parse_identity_commitments returns is the index
\* one past the highest leaf written: the number of commitments loaded from
\* the file when the query returns no event, and m + 1 when the last event
\* applied has leaf index m; a missing or unparsable file loads nothing and
\* has the events read from block 0.
C29_ReturnsNextFreeIndex ==
    parse.pc = "done"
        => LET logs == QueryLogs(parse.logs, parse.starting_block)
           IN  /\ parse.file.kind # "ok" => parse.starting_block = 0
               /\ logs = <<>>
                      => /\ parse.result = Len(parse.file.commitments)
                         /\ \A i \in ParseWritten : i < parse.result
               /\ logs # <<>>
                      => /\ parse.result = logs[Len(logs)].leaf_index + 1
                         /\ \A i \in ParseWritten : i < parse.result

\* C29, what the code returns: the number of commitments loaded when the
\* query returns no event, and the leaf index m of the last event applied,
\* which is the highest leaf written and not one past it, when it returns
\* some; a missing or unparsable file loads nothing and has the events read
\* from block 0.
C29_ReturnsLastEventIndex ==
    parse.pc = "done"
        => LET logs == QueryLogs(parse.logs, parse.starting_block)
           IN  /\ parse.file.kind # "ok"
                      => /\ parse.starting_block = 0
                         /\ logs = parse.logs
                         /\ \A i \in ParseWritten :
                                \E k \in 1 .. Len(logs) : logs[k].leaf_index = i
               /\ logs = <<>> => parse.result = Len(parse.file.commitments)
               /\ logs # <<>>
                      => /\ parse.result = logs[Len(logs)].leaf_index
                         /\ parse.tree[parse.result] = logs[Len(logs)].leaf

\* A call has returned after applying events over the leaves of a file.
C29_Witness ==
    /\ parse.pc = "done"
    /\ parse.file.kind = "ok"
    /\ Len(parse.file.commitments) = 2
    /\ Len(QueryLogs(parse.logs, parse.starting_block)) = 2
    /\ parse.result = 1

=============================================================================
